---- MODULE Spec2Model ----
(***************************************************************************)
(* Model of the tile-grid surface of pyxel-engine (tilemap.rs) and of the  *)
(* version gate of the resource loader (resource.rs).                      *)
(*                                                                         *)
(* A Tilemap is a record [width, height, self_rect, clip_rect, data];      *)
(* data is indexed data[y][x] from 0, as the Vec<Vec<Tile>> of the code.   *)
(* A Tile is a pair <<tile_x, tile_y>>.  A &str is a sequence of           *)
(* one-character strings.                                                  *)
(***************************************************************************)
EXTENDS Integers, Sequences, FiniteSets, TLC

VARIABLES tm, op

vars == <<tm, op>>

(***************************************************************************)
(* Bounds of the model.                                                    *)
(***************************************************************************)
DstWidth == 2
DstHeight == 3
MaxCoord == 1
MaxExtent == 2
MaxGroups == 2
MaxPad == 2
MaxFormatVersion == 5

(***************************************************************************)
(* Option<T>                                                               *)
(***************************************************************************)
None == [some |-> FALSE]

Some(v) == [some |-> TRUE, value |-> v]

Max(a, b) == IF a >= b THEN a ELSE b

Min(a, b) == IF a <= b THEN a ELSE b

(***************************************************************************)
(* RectArea: left, top may be negative; an empty area has zero extent.     *)
(***************************************************************************)
RectArea(l, t, w, h) == [left |-> l, top |-> t, width |-> w, height |-> h]

EmptyRect == RectArea(0, 0, 0, 0)

IsEmptyRect(r) == r.width <= 0 \/ r.height <= 0

Contains(r, x, y) ==
    /\ r.left <= x /\ x < r.left + r.width
    /\ r.top <= y /\ y < r.top + r.height

Intersects(a, b) ==
    LET l == Max(a.left, b.left)
        t == Max(a.top, b.top)
        r == Min(a.left + a.width, b.left + b.width)
        d == Min(a.top + a.height, b.top + b.height)
    IN  IF r - l > 0 /\ d - t > 0 THEN RectArea(l, t, r - l, d - t) ELSE EmptyRect

RectWithin(inner, outer) ==
    IsEmptyRect(inner) \/ Intersects(inner, outer) = inner

(***************************************************************************)
(* Tilemap                                                                 *)
(***************************************************************************)
ZeroTile == <<0, 0>>

NewBadClip(width, height) ==
    [width |-> width, height |-> height,
     self_rect |-> RectArea(0, 0, width, height),
     clip_rect |-> RectArea(0, 0, width + 1, height + 1),
     data |-> [y \in 0..(height - 1) |-> [x \in 0..(width - 1) |-> ZeroTile]]]

New(width, height) ==
    [width |-> width, height |-> height,
     self_rect |-> RectArea(0, 0, width, height),
     clip_rect |-> RectArea(0, 0, width, height),
     data |-> [y \in 0..(height - 1) |-> [x \in 0..(width - 1) |-> ZeroTile]]]

width(t) == t.width

height(t) == t.height

_value(t, x, y) == t.data[y][x]

_set_value(t, x, y, tile) == [t EXCEPT !.data[y][x] = tile]

_self_rect_wide(t) == RectArea(0, 0, t.width + 1, t.height + 1)

_self_rect(t) == t.self_rect

_clip_rect(t) == t.clip_rect

_clip_rect_mut(t, r) == [t EXCEPT !.clip_rect = r]

InBuffer(t, x, y) == y \in DOMAIN t.data /\ x \in DOMAIN t.data[y]

(***************************************************************************)
(* Canvas::clip / clip0 / pset: the callers of _clip_rect_mut and of       *)
(* _set_value for a single cell.                                           *)
(***************************************************************************)
clip(t, x, y, w, h) ==
    _clip_rect_mut(t, Intersects(_self_rect(t), RectArea(x, y, w, h)))

clip0(t) == _clip_rect_mut(t, _self_rect(t))

pset(t, x, y, tile) ==
    IF Contains(_self_rect(t), x, y) /\ Contains(_clip_rect(t), x, y)
    THEN _set_value(t, x, y, tile)
    ELSE t

(***************************************************************************)
(* Canvas::blt.  CopyArea is steps 1 and 2: the destination write region   *)
(* and the source region in 1:1 correspondence after clipping.             *)
(***************************************************************************)
CopyArea(dst, x, y, src, u, v, w, h) ==
    LET dreg == Intersects(Intersects(_clip_rect(dst), _self_rect(dst)),
                           RectArea(x, y, w, h))
        sreg == Intersects(_self_rect(src), RectArea(u, v, w, h))
        smap == RectArea(sreg.left - u + x, sreg.top - v + y,
                         sreg.width, sreg.height)
        r    == Intersects(dreg, smap)
    IN  [dst_x |-> r.left, dst_y |-> r.top,
         src_x |-> r.left - x + u, src_y |-> r.top - y + v,
         width |-> r.width, height |-> r.height]

(* Iteration order of a copy: a copy of a surface onto itself runs in      *)
(* reverse along an axis when the destination lies after the source.       *)
BltOrderForward(same, area) == [rev_x |-> FALSE, rev_y |-> FALSE]

BltOrder(same, area) ==
    [rev_x |-> same /\ area.dst_x > area.src_x,
     rev_y |-> same /\ area.dst_y > area.src_y]

Indices(n, rev) == [k \in 1..n |-> IF rev THEN n - k ELSE k - 1]

(* One iteration of step 3: read the source cell, skip the transparent    *)
(* key, write the destination cell.  A raw access outside the buffer is    *)
(* the panic of the unchecked indexing.                                    *)
BltCell(acc, ctx, xi, yi) ==
    LET a     == ctx.area
        sx    == a.src_x + (IF ctx.flip_x THEN a.width - 1 - xi ELSE xi)
        sy    == a.src_y + (IF ctx.flip_y THEN a.height - 1 - yi ELSE yi)
        dx    == a.dst_x + xi
        dy    == a.dst_y + yi
        from  == IF ctx.same THEN acc.t ELSE ctx.src
    IN  IF acc.panic THEN acc
        ELSE IF ~InBuffer(from, sx, sy)
        THEN [acc EXCEPT !.panic = TRUE, !.reads = @ \cup {<<sx, sy>>}]
        ELSE LET value == _value(from, sx, sy)
             IN  IF ctx.colkey.some /\ ctx.colkey.value = value
                 THEN [acc EXCEPT !.reads = @ \cup {<<sx, sy>>}]
                 ELSE IF ~InBuffer(acc.t, dx, dy)
                 THEN [acc EXCEPT !.panic = TRUE,
                                  !.reads = @ \cup {<<sx, sy>>},
                                  !.writes = @ \cup {<<dx, dy>>}]
                 ELSE [acc EXCEPT !.t = _set_value(acc.t, dx, dy, value),
                                  !.reads = @ \cup {<<sx, sy>>},
                                  !.writes = @ \cup {<<dx, dy>>}]

(* BltCell on the value of acc (bound once, so that the accumulated       *)
(* surface is computed a single time per iteration).                       *)
BltStep(acc, ctx, xi, yi) ==
    CHOOSE r \in {BltCell(a, ctx, xi, yi) : a \in {acc}} : TRUE

RECURSIVE BltLoop(_, _, _)
BltLoop(acc, ctx, k) ==
    IF k > ctx.area.width * ctx.area.height THEN acc
    ELSE BltLoop(BltStep(acc, ctx,
                         ctx.xs[((k - 1) % ctx.area.width) + 1],
                         ctx.ys[((k - 1) \div ctx.area.width) + 1]),
                 ctx, k + 1)

BltRun(dst, src, same, area, flip_x, flip_y, colkey) ==
    LET order == BltOrder(same, area)
        ctx   == [area |-> area, src |-> src, same |-> same,
                  flip_x |-> flip_x, flip_y |-> flip_y, colkey |-> colkey,
                  xs |-> Indices(area.width, order.rev_x),
                  ys |-> Indices(area.height, order.rev_y)]
        start == [t |-> dst, reads |-> {}, writes |-> {}, panic |-> FALSE]
    IN  IF area.width = 0 \/ area.height = 0 THEN start
        ELSE CHOOSE r \in {BltLoop(start, c, 1) : c \in {ctx}} : TRUE

(* blt(x, y, canvas, u, v, w, h) with flips and transparent key; `same`    *)
(* says that canvas is the destination itself.                             *)
blt(dst, x, y, src, same, u, v, w, h, flip_x, flip_y, colkey) ==
    CHOOSE r \in {BltRun(dst, src, same, area, flip_x, flip_y, colkey) :
                    area \in {CopyArea(dst, x, y, src, u, v, w, h)}} : TRUE

(***************************************************************************)
(* utility: simplify_string and parse_hex_string                           *)
(***************************************************************************)
Whitespace == {" ", "\t", "\n", "\r"}

HexDigits ==
    [c \in {"0", "1", "2", "3", "4", "5", "6", "7", "8", "9",
            "a", "b", "c", "d", "e", "f", "A", "B", "C", "D", "E", "F"} |->
        CASE c = "0" -> 0 [] c = "1" -> 1 [] c = "2" -> 2 [] c = "3" -> 3
          [] c = "4" -> 4 [] c = "5" -> 5 [] c = "6" -> 6 [] c = "7" -> 7
          [] c = "8" -> 8 [] c = "9" -> 9
          [] c \in {"a", "A"} -> 10 [] c \in {"b", "B"} -> 11
          [] c \in {"c", "C"} -> 12 [] c \in {"d", "D"} -> 13
          [] c \in {"e", "E"} -> 14 [] c \in {"f", "F"} -> 15]

IsSpace(c) == c \in Whitespace

simplify_string(s) == SelectSeq(s, LAMBDA c : ~IsSpace(c))

(* The value of a string of hex digits; set parses groups of 4 digits, so  *)
(* the value stays below 2^16 and never wraps the u32 it is held in.       *)
RECURSIVE HexValue(_, _)
HexValue(s, acc) ==
    IF s = <<>> THEN acc
    ELSE HexValue(Tail(s), acc * 16 + HexDigits[Head(s)])

parse_hex_string(s) ==
    IF \A k \in 1..Len(s) : s[k] \in DOMAIN HexDigits
    THEN Some(HexValue(s, 0))
    ELSE None

(***************************************************************************)
(* Tilemap::set                                                            *)
(***************************************************************************)
TileOfShift8(value) == <<(value \div 256) % 256, value % 256>>

TileOf(value) == <<(value \div 65536) % 256, value % 256>>

SetWidth(data_str) == Len(data_str[1]) \div 4

SetHeight(data_str) == Len(data_str)

(* The outcome of decoding group j of row i: the slice src_data[index..   *)
(* index + 4] panics when it runs past the simplified row, and a group     *)
(* that does not parse is the panic "invalid tilemap data".                *)
GroupAtStride2(data_str, i, j) ==
    LET src_data == simplify_string(data_str[i + 1])
        index    == j * 2
    IN  IF index + 4 > Len(src_data) THEN [status |-> "panic_slice"]
        ELSE LET parsed == parse_hex_string(SubSeq(src_data, index + 1, index + 4))
             IN  IF parsed.some
                 THEN [status |-> "ok", tile |-> TileOf(parsed.value)]
                 ELSE [status |-> "panic_invalid"]

GroupAt(data_str, i, j) ==
    LET src_data == simplify_string(data_str[i + 1])
        index    == j * 4
    IN  IF index + 4 > Len(src_data) THEN [status |-> "panic_slice"]
        ELSE LET parsed == parse_hex_string(SubSeq(src_data, index + 1, index + 4))
             IN  IF parsed.some
                 THEN [status |-> "ok", tile |-> TileOf(parsed.value)]
                 ELSE [status |-> "panic_invalid"]

(* The decode loop of set into the temporary tilemap: rows in order,       *)
(* groups in order, stopping at the first panic.                           *)
RECURSIVE DecodeLoop(_, _, _, _)
DecodeLoop(data_str, w, tilemap, k) ==
    IF k >= w * Len(data_str) THEN [status |-> "ok", tilemap |-> tilemap]
    ELSE CHOOSE r \in
           { IF g.status # "ok"
             THEN [status |-> g.status, tilemap |-> New(0, 0)]
             ELSE DecodeLoop(data_str, w,
                             _set_value(tilemap, k % w, k \div w, g.tile), k + 1)
             : g \in {GroupAt(data_str, k \div w, k % w)} } : TRUE

Decode(data_str) ==
    IF Len(data_str) = 0
    THEN [status |-> "panic_index", tilemap |-> New(0, 0)]
    ELSE CHOOSE r \in
           { DecodeLoop(data_str, SetWidth(data_str), t, 0)
             : t \in {New(SetWidth(data_str), SetHeight(data_str))} } : TRUE

SetBlt(t, x, y, d) ==
    IF d.status # "ok"
    THEN [status |-> d.status, t |-> t, decoded |-> d.tilemap,
          reads |-> {}, writes |-> {}]
    ELSE CHOOSE res \in
           { [status |-> IF r.panic THEN "panic_blt" ELSE "ok",
              t |-> r.t, decoded |-> d.tilemap,
              reads |-> r.reads, writes |-> r.writes]
             : r \in {blt(t, x, y, d.tilemap, FALSE, 0, 0,
                          width(d.tilemap), height(d.tilemap),
                          FALSE, FALSE, None)} } : TRUE

setShifted(t, x, y, data_str) ==
    CHOOSE res \in {SetBlt(t, x + 1, y, d) : d \in {Decode(data_str)}} : TRUE

set(t, x, y, data_str) ==
    CHOOSE res \in {SetBlt(t, x, y, d) : d \in {Decode(data_str)}} : TRUE

(***************************************************************************)
(* Pyxel::load: the archive is missing, not a zip, a legacy archive, an    *)
(* archive without the manifest entry, or a new-format archive whose       *)
(* manifest carries format_version.  RESOURCE_FORMAT_VERSION is imported   *)
(* from the crate root; load only compares format_version with it.         *)
(***************************************************************************)
RESOURCE_FORMAT_VERSION == 4

unwrap_or(o, default) == IF o.some THEN o.value ELSE default

VersionGate(format_version) == format_version > RESOURCE_FORMAT_VERSION

(* The palette sidecar: absent, readable, or holding a line that is not    *)
(* hexadecimal (the unwrap of from_str_radix panics after to_runtime ran). *)
load(archive, format_version, inc, palette) ==
    IF archive = "missing" THEN [status |-> "panic_open", path |-> "none"]
    ELSE IF archive = "notzip" THEN [status |-> "panic_zip", path |-> "none"]
    ELSE IF archive = "legacy"
    THEN [status |-> "ok", path |-> "load_old_resource",
          include_images |-> unwrap_or(inc.images, TRUE),
          include_tilemaps |-> unwrap_or(inc.tilemaps, TRUE),
          include_sounds |-> unwrap_or(inc.sounds, TRUE),
          include_musics |-> unwrap_or(inc.musics, TRUE)]
    ELSE IF archive = "nomanifest"
    THEN [status |-> "panic_unwrap", path |-> "none"]
    ELSE IF ~VersionGate(format_version)
    THEN [status |-> "panic_too_new", path |-> "none"]
    ELSE [status |-> IF palette = "bad" THEN "panic_unwrap" ELSE "ok",
          path |-> "to_runtime",
          include_colors |-> unwrap_or(inc.colors, FALSE),
          include_images |-> unwrap_or(inc.images, TRUE),
          include_tilemaps |-> unwrap_or(inc.tilemaps, TRUE),
          include_channels |-> unwrap_or(inc.channels, FALSE),
          include_sounds |-> unwrap_or(inc.sounds, TRUE),
          include_musics |-> unwrap_or(inc.musics, TRUE),
          include_waveforms |-> unwrap_or(inc.waveforms, FALSE),
          colors_replaced |-> (palette = "ok")]

(***************************************************************************)
(* Inputs                                                                  *)
(***************************************************************************)
Coords == (-1)..MaxCoord

Extents == 0..MaxExtent

G0000 == <<"0", "0", "0", "0">>

G0001 == <<"0", "0", "0", "1">>

G0002 == <<"0", "0", "0", "2">>

G0003 == <<"0", "0", "0", "3">>

G0004 == <<"0", "0", "0", "4">>

G0102 == <<"0", "1", "0", "2">>

G00gg == <<"0", "0", "g", "g">>

InputGroups == {G0001, G0102, G00gg}

RowCounts == {1, 2}

Spaces(n) == [k \in 1..n |-> " "]

RECURSIVE RowOf(_, _)
RowOf(groups, pad) ==
    IF groups = <<>> THEN <<>>
    ELSE Head(groups) \o Spaces(pad) \o RowOf(Tail(groups), pad)

GroupSeqs == UNION {[1..n -> InputGroups] : n \in 1..MaxGroups}

Rows(pad) == {RowOf(gs, pad) : gs \in GroupSeqs}

ExampleDataStrs ==
    { <<G0000 \o G0001, G0002 \o G0003>>,
      <<G0001 \o <<" ">> \o G0002 \o <<" ">> \o G0003 \o <<" ">> \o G0004>>,
      <<G0001 \o G0002 \o G0003 \o G0004>>,
      <<>> }

DataStrs ==
    ExampleDataStrs \cup
    UNION {UNION {[1..n -> Rows(pad)] : n \in RowCounts} : pad \in 0..MaxPad}

SmallDataStrs == {<<G0001>>, <<G0001 \o G0001, G0001 \o G0001>>, <<G00gg>>}

(* Surfaces the single-cell writes of a program can have produced.         *)
Pattern(t) ==
    [t EXCEPT !.data = [y \in 0..(t.height - 1) |->
                          [x \in 0..(t.width - 1) |-> <<x + 1, y + 1>>]]]

Fill(t, tile) ==
    [t EXCEPT !.data = [y \in 0..(t.height - 1) |->
                          [x \in 0..(t.width - 1) |-> tile]]]

InitTilemaps ==
    { Pattern(New(DstWidth, DstHeight)),
      clip(Pattern(New(DstWidth, DstHeight)), 1, 1, DstWidth, DstHeight),
      Pattern(New(1, 1)) }

BltSources == {Pattern(New(2, 2))}

BltKeys == {None, Some(<<1, 1>>)}

MachineSizes == {<<0, 1>>, <<1, 1>>, <<2, 1>>, <<2, 2>>}

MachineTile == <<0, 1>>

MachineSources == {Fill(New(2, 2), MachineTile)}

MachineOffsets == {<<0, 0>>, <<1, 1>>, <<-1, 0>>}

MachineClips == {<<0, 0, 1, 1>>, <<1, 0, 2, 2>>, <<-1, -1, 2, 3>>, <<1, 1, 0, 0>>}

OptBool == {None, Some(TRUE), Some(FALSE)}

Includes ==
    [colors : OptBool, images : OptBool, tilemaps : OptBool, channels : OptBool,
     sounds : OptBool, musics : OptBool, waveforms : OptBool]

Archives == {"missing", "notzip", "legacy", "nomanifest", "new"}

Palettes == {"none", "ok", "bad"}

(***************************************************************************)
(* State: tm is the destination tilemap, op the last operation with the    *)
(* tilemap it started from, its arguments and its outcome.                 *)
(***************************************************************************)
Record(name, args, status, reads, writes, aux) ==
    [name |-> name, prev |-> tm, args |-> args, status |-> status,
     reads |-> reads, writes |-> writes, aux |-> aux]

NewOp(w, h) ==
    /\ tm' = New(w, h)
    /\ op' = Record("new", <<w, h>>, "ok", {}, {}, <<>>)

ClipOp(x, y, w, h) ==
    /\ tm' = clip(tm, x, y, w, h)
    /\ op' = Record("clip", <<x, y, w, h>>, "ok", {}, {}, <<>>)

Clip0Op ==
    /\ tm' = clip0(tm)
    /\ op' = Record("clip0", <<>>, "ok", {}, {}, <<>>)

PsetOp(x, y, tile) ==
    /\ tm' = pset(tm, x, y, tile)
    /\ op' = Record("pset", <<x, y, tile>>, "ok", {}, {}, <<>>)

BltOp(x, y, src, u, v, w, h, flip_x, flip_y, colkey) ==
    \E r \in {blt(tm, x, y, src, FALSE, u, v, w, h, flip_x, flip_y, colkey)} :
        /\ tm' = r.t
        /\ op' = Record("blt", <<x, y, u, v, w, h, flip_x, flip_y, colkey>>,
                        IF r.panic THEN "panic_blt" ELSE "ok",
                        r.reads, r.writes, src)

SelfBltOp(x, y, u, v, w, h, colkey) ==
    \E r \in {blt(tm, x, y, tm, TRUE, u, v, w, h, FALSE, FALSE, colkey)} :
        /\ tm' = r.t
        /\ op' = Record("selfblt", <<x, y, u, v, w, h, FALSE, FALSE, colkey>>,
                        IF r.panic THEN "panic_blt" ELSE "ok",
                        r.reads, r.writes, tm)

SetOp(x, y, data_str) ==
    \E r \in {set(tm, x, y, data_str)} :
        /\ tm' = r.t
        /\ op' = Record("set", <<x, y, data_str>>, r.status,
                        r.reads, r.writes, r.decoded)

LoadOp(archive, format_version, inc, palette) ==
    \E r \in {load(archive, format_version, inc, palette)} :
        /\ tm' = tm
        /\ op' = Record("load", <<archive, format_version, inc, palette>>,
                        r.status, {}, {}, r)

InitOp == [name |-> "init", prev |-> tm, args |-> <<>>, status |-> "ok",
           reads |-> {}, writes |-> {}, aux |-> <<>>]

(***************************************************************************)
(* Spec: a tilemap under any sequence of its operations.                   *)
(***************************************************************************)
Init ==
    /\ tm \in {New(s[1], s[2]) : s \in MachineSizes}
    /\ op = InitOp

Next ==
    \/ \E s \in MachineSizes : NewOp(s[1], s[2])
    \/ \E c \in MachineClips : ClipOp(c[1], c[2], c[3], c[4])
    \/ Clip0Op
    \/ \E o \in MachineOffsets : PsetOp(o[1], o[2], MachineTile)
    \/ \E o \in MachineOffsets, src \in MachineSources :
           BltOp(o[1], o[2], src, 0, 0, width(src), height(src), FALSE, FALSE, None)
    \/ \E o \in MachineOffsets :
           SelfBltOp(o[1], o[2], 0, 0, width(tm), height(tm), None)
    \/ \E o \in MachineOffsets, data_str \in SmallDataStrs : SetOp(o[1], o[2], data_str)

Spec == Init /\ [][Next]_vars

(***************************************************************************)
(* SpecSet: one call of Tilemap::set on a surface, over all inputs.        *)
(***************************************************************************)
InitSet ==
    /\ tm \in InitTilemaps
    /\ op = InitOp

NextSet ==
    /\ op.name = "init"
    /\ \E x \in Coords, y \in Coords, data_str \in DataStrs : SetOp(x, y, data_str)

SpecSet == InitSet /\ [][NextSet]_vars

(***************************************************************************)
(* SpecBlt: one call of blt, from another surface or from the surface      *)
(* itself, over all inputs.                                                *)
(***************************************************************************)
NextBlt ==
    /\ op.name = "init"
    /\ \/ \E x \in Coords, y \in Coords, u \in Coords, v \in Coords,
             w \in Extents, h \in Extents, src \in BltSources,
             flip_x \in BOOLEAN, flip_y \in BOOLEAN, colkey \in BltKeys :
               BltOp(x, y, src, u, v, w, h, flip_x, flip_y, colkey)
       \/ \E x \in Coords, y \in Coords, u \in Coords, v \in Coords,
             w \in Extents, h \in Extents, colkey \in BltKeys :
               SelfBltOp(x, y, u, v, w, h, colkey)

SpecBlt == InitSet /\ [][NextBlt]_vars

(***************************************************************************)
(* SpecLoad: one call of Pyxel::load.                                      *)
(***************************************************************************)
NextLoad ==
    /\ op.name = "init"
    /\ \E archive \in Archives, format_version \in 0..MaxFormatVersion,
          inc \in Includes, palette \in Palettes :
            LoadOp(archive, format_version, inc, palette)

SpecLoad == InitSet /\ [][NextLoad]_vars

(***************************************************************************)
(* Properties                                                              *)
(***************************************************************************)
IsSet == op.name = "set"

SetX == op.args[1]

SetY == op.args[2]

SetRows == op.args[3]

(* The 4-character groups of a row, whitespace aside. *)
GroupCount(row) == Len(simplify_string(row)) \div 4

GroupChars(row, j) == SubSeq(simplify_string(row), 4 * j + 1, 4 * j + 4)

IsHexGroup(g) == \A k \in 1..Len(g) : g[k] \in DOMAIN HexDigits

HasBadGroup(data_str) ==
    \E i \in 1..Len(data_str) : \E j \in 0..(GroupCount(data_str[i]) - 1) :
        ~IsHexGroup(GroupChars(data_str[i], j))

Ragged(data_str) ==
    \E i \in 1..Len(data_str) : Len(data_str[i]) # Len(data_str[1])

PlainHexRows(data_str) ==
    /\ Len(data_str) >= 1
    /\ Len(data_str[1]) >= 4
    /\ Len(data_str[1]) % 4 = 0
    /\ \A i \in 1..Len(data_str) :
          /\ Len(data_str[i]) = Len(data_str[1])
          /\ \A k \in 1..Len(data_str[i]) : data_str[i][k] \in DOMAIN HexDigits

GroupValue(row, j) ==
    4096 * HexDigits[row[4 * j + 1]] + 256 * HexDigits[row[4 * j + 2]]
    + 16 * HexDigits[row[4 * j + 3]] + HexDigits[row[4 * j + 4]]

ExpectedTile(value) == <<(value \div 65536) % 256, value % 256>>

Cells(t) == {c \in (0..(t.width - 1)) \X (0..(t.height - 1)) : TRUE}

FullClip(t) == t.clip_rect = RectArea(0, 0, t.width, t.height)

(* C1: a row list with a 4-character group that is not hexadecimal makes   *)
(* set fail and leaves the destination exactly as it was.                  *)
C1_MalformedGroupFails ==
    (IsSet /\ HasBadGroup(SetRows)) => (op.status # "ok" /\ tm = op.prev)

(* C2: for rows of plain hexadecimal of equal length 4*w, on a destination *)
(* with a full clip rect that holds the insert, set succeeds and cell      *)
(* (x + j, y + i) holds ((value >> 16) & 0xff, value & 0xff) for the value *)
(* of group j of row i.                                                    *)
C2_SetWritesDecodedTiles ==
    (/\ IsSet
     /\ PlainHexRows(SetRows)
     /\ FullClip(op.prev)
     /\ SetX >= 0 /\ SetY >= 0
     /\ SetX + Len(SetRows[1]) \div 4 <= op.prev.width
     /\ SetY + Len(SetRows) <= op.prev.height)
    => /\ op.status = "ok"
       /\ \A i \in 0..(Len(SetRows) - 1) :
          \A j \in 0..(Len(SetRows[1]) \div 4 - 1) :
             tm.data[SetY + i][SetX + j]
                = ExpectedTile(GroupValue(SetRows[i + 1], j))

C2_Witness ==
    /\ IsSet
    /\ SetRows = <<G0000 \o G0001, G0002 \o G0003>>
    /\ SetX = 0 /\ SetY = 1
    /\ FullClip(op.prev) /\ op.prev.width = DstWidth /\ op.prev.height = DstHeight
    /\ op.status = "ok"
    /\ tm.data[1][0] = <<0, 0>> /\ tm.data[1][1] = <<0, 1>>
    /\ tm.data[2][0] = <<0, 2>> /\ tm.data[2][1] = <<0, 3>>
    /\ tm.data[0] = op.prev.data[0]

(* C3: set changes no destination cell outside the intersection of the     *)
(* clip rect, the self rect and the requested rectangle (x, y, width,      *)
(* height); the blit never fails, and an empty intersection leaves the     *)
(* destination as it was.                                                  *)
SetRegion ==
    Intersects(Intersects(op.prev.clip_rect, op.prev.self_rect),
               RectArea(SetX, SetY, op.aux.width, op.aux.height))

C3_SetWritesOnlyInsideClip ==
    IsSet =>
       /\ op.status # "panic_blt"
       /\ tm.width = op.prev.width /\ tm.height = op.prev.height
       /\ tm.clip_rect = op.prev.clip_rect /\ tm.self_rect = op.prev.self_rect
       /\ \A c \in Cells(op.prev) :
             ~Contains(SetRegion, c[1], c[2])
                => tm.data[c[2]][c[1]] = op.prev.data[c[2]][c[1]]
       /\ \A c \in op.writes : Contains(SetRegion, c[1], c[2])
       /\ IsEmptyRect(SetRegion) => tm = op.prev

C3_Witness ==
    /\ IsSet /\ op.status = "ok"
    /\ SetX = -1 /\ SetY = 1
    /\ op.aux.width = 2 /\ op.aux.height = 2
    /\ FullClip(op.prev) /\ op.prev.width = DstWidth
    /\ Cardinality(op.writes) = 2
    /\ tm # op.prev

(* C4: a row list with a row whose length differs from the first row's     *)
(* makes set fail and leaves the destination as it was.                    *)
C4_RaggedRowsRejected ==
    (IsSet /\ Ragged(SetRows)) => (op.status # "ok" /\ tm = op.prev)

(* C5: whitespace in the rows does not change what set does: when set      *)
(* succeeds on the rows without their whitespace, it succeeds on the rows  *)
(* as given and leaves the same destination.                               *)
StripRows(data_str) == [i \in 1..Len(data_str) |-> simplify_string(data_str[i])]

C5_WhitespaceInsignificant ==
    IsSet =>
       \A plain \in {set(op.prev, SetX, SetY, StripRows(SetRows))} :
           plain.status = "ok" => (op.status = "ok" /\ tm = plain.t)

(* C6: blt never fails, reads only inside the source's self rect and       *)
(* writes only inside the destination's self rect and clip rect, so the    *)
(* unchecked indexing is never reached outside the buffers.                *)
IsBlt == op.name \in {"blt", "selfblt"}

C6_BltAccessesInRange ==
    IsBlt =>
       /\ op.status = "ok"
       /\ \A c \in op.reads :
             /\ Contains(op.aux.self_rect, c[1], c[2])
             /\ InBuffer(op.aux, c[1], c[2])
       /\ \A c \in op.writes :
             /\ Contains(op.prev.self_rect, c[1], c[2])
             /\ Contains(op.prev.clip_rect, c[1], c[2])
             /\ InBuffer(op.prev, c[1], c[2])

C6_Witness ==
    /\ op.name = "blt" /\ op.status = "ok"
    /\ op.args[1] = 1 /\ op.args[2] = 1 /\ op.args[3] = 0 /\ op.args[4] = -1
    /\ op.args[5] = 2 /\ op.args[6] = 2
    /\ op.args[7] /\ ~op.args[9].some
    /\ ~FullClip(op.prev)
    /\ op.reads = {<<0, 0>>} /\ op.writes = {<<1, 2>>}

(* C7: a blit of a surface onto itself leaves the surface that a blit from *)
(* a separate copy of the surface, taken before the call, leaves.          *)
C7_SelfBltAsBuffered ==
    op.name = "selfblt" =>
       \A r \in {blt(op.prev, op.args[1], op.args[2], op.prev, FALSE,
                     op.args[3], op.args[4], op.args[5], op.args[6],
                     FALSE, FALSE, op.args[9])} :
           tm = r.t

C7_Witness ==
    /\ op.name = "selfblt"
    /\ op.args[1] = 0 /\ op.args[2] = 1 /\ op.args[3] = 0 /\ op.args[4] = 0
    /\ op.args[5] = 2 /\ op.args[6] = 2 /\ ~op.args[9].some
    /\ FullClip(op.prev) /\ op.prev.height = DstHeight /\ op.prev.width = DstWidth
    /\ tm.data[1] = op.prev.data[0]
    /\ tm.data[2] = op.prev.data[1]
    /\ op.prev.data[1] # op.prev.data[0]

C9_TooNewExactlyWhenGreater ==
    (op.name = "load" /\ op.args[1] = "new") =>
       /\ (op.status = "panic_too_new") <=> (op.args[2] > RESOURCE_FORMAT_VERSION)
       /\ op.args[2] <= RESOURCE_FORMAT_VERSION => op.aux.path = "to_runtime"

(* C10: every tile set decodes and writes has tile_x = 0, and its tile_y   *)
(* is the value of the last two hex digits of its group.                   *)
LowByte(g) == 16 * HexDigits[g[3]] + HexDigits[g[4]]

C10_TileXAlwaysZero ==
    (IsSet /\ op.status = "ok") =>
       /\ \A c \in Cells(op.aux) :
             op.aux.data[c[2]][c[1]]
                = <<0, LowByte(GroupChars(SetRows[c[2] + 1], c[1]))>>
       /\ \A c \in op.writes : tm.data[c[2]][c[1]][1] = 0

C10_Witness ==
    /\ IsSet /\ op.status = "ok"
    /\ SetRows = <<G0102 \o G0001>>
    /\ SetX = 0 /\ SetY = 0
    /\ op.aux.data[0][0] = <<0, 2>>
    /\ tm.data[0][0] = <<0, 2>>
    /\ <<0, 0>> \in op.writes

====
